---- MODULE Spec2Model ----
\* kalepy plotting core (src/kalepy/plot.py, src/kalepy/corner.py): the level
\* solvers plot._dfm_levels and corner._dfm_levels, the 1D interval routine
\* plot.contour1d, the grid padding of plot._pad_hist and corner.dist2d_data,
\* the edge resolver corner._parse_edges, the drawing entry points
\* corner.dist1d_data, corner.dist2d_data, plot.draw_contour2d,
\* plot.draw_hist2d and plot.dist1d, and the default dictionaries, weights and
\* limits of the methods of plot.Corner.
\*
\* Numbers.  Density values, sample values and weights are small naturals
\* (floats holding integral values, on which numpy's arithmetic is exact).  A
\* quotient is an exact fraction <<num, den>>; the float 0/0 is nan, and every
\* comparison with nan is false, as in IEEE-754.
EXTENDS Integers, Sequences, FiniteSets

VARIABLES
    pc,          \* "init" before the call, then the operation that was called
    raised,      \* the exception the last operation raised ("none": it returned)
    hist,        \* caller's density grid, a sequence of rows
    cdf_levels,  \* caller's target probabilities, fractions
    thresholds,  \* level solver: per-quantile thresholds before the sort
    levels,      \* level solver: returned levels
    kept,        \* level solver: returned quantiles
    data,        \* contour1d: caller's sample array
    weights,     \* contour1d: caller's weight array, or None
    quantiles,   \* contour1d: requested widths, fractions
    median,      \* contour1d: the median flag
    sdata,       \* contour1d: the local data after sorting
    cdf,         \* contour1d: the local cdf
    locs,        \* contour1d: the (lo, hi) spans drawn, in order
    mm,          \* contour1d: the median line drawn, or None
    edges,       \* padding: caller's edge arrays, one per dimension of hist
    pad,         \* padding: the pad argument
    pedges,      \* padding: the edge arrays after padding
    phist,       \* padding: the grid after padding
    espec,       \* _parse_edges: the edges argument
    params,      \* _parse_edges: the data argument, one row per parameter
    parsed,      \* _parse_edges: the returned edges, or None
    has_kde,     \* Corner: the instance was built with data (self._kde is set)
    defaults,    \* Corner: the default dist1d/dist2d dictionaries of each method
    udist1d,     \* Corner: a dist1d dictionary owned by the caller
    udist2d,     \* Corner: a dist2d dictionary owned by the caller
    used1d,      \* Corner: the options the last call handed to dist1d, or None
    used2d,      \* Corner: the options the last call handed to dist2d, or None
    nodicts,     \* Corner: no call so far was given a dist1d or dist2d argument
    cweights,    \* Corner: self._weights, the weights of self._kde (None: uniform)
    limit_flag,  \* Corner: self._limit_flag
    climits,     \* Corner: self._limits, one entry per parameter
    cargs,       \* Corner: what the last call was given: <<src, kw, weights, limit>>
    wused,       \* Corner: the weights the last call handed on to the drawing
    reset,       \* Corner: the last call reset the axes extrema
    dargs,       \* drawing: the keyword arguments of the entry point called
    calls        \* drawing: the calls issued on the axes (or to helpers), in order

levelVars == <<hist, cdf_levels, thresholds, levels, kept>>
contourVars == <<data, weights, quantiles, median, sdata, cdf, locs, mm>>
padVars == <<edges, pad, pedges, phist>>
parseVars == <<espec, params, parsed>>
cornerVars ==
    <<has_kde, defaults, udist1d, udist2d, used1d, used2d, nodicts,
      cweights, limit_flag, climits, cargs, wused, reset>>

drawVars == <<dargs, calls>>

vars == <<pc, raised, levelVars, contourVars, padVars, parseVars, cornerVars, drawVars>>

\* ---------------------------------------------------------------- bounds
MaxCells == 3
MaxDens == 2
MaxQ == 3
MaxN == 3
MaxWidths == 2
MaxPad == 2
MaxDims == 2
MaxEntries == 3
MaxEdgeLen == 4

\* an optional value: None, or Some(x) holding x
None == <<>>

Some(x) == <<x>>

Val(o) == o[1]
\* ------------------------------------------------------------ arithmetic
\* A float is a fraction <<num, den>> with den > 0; a fraction with den = 0 is
\* nan.  The operations below are exact and leave their result unreduced;
\* Lowest gives the one representative that is stored in the state.
NaN == <<0, 0>>

IsNaN(a) == a[2] = 0

\* the float of the natural v
Num(v) == <<v, 1>>

\* float division of naturals n / d with n = 0 when d = 0: 0/0 is nan (numpy
\* warns and goes on)
Div(n, d) == <<n, d>>

\* comparisons of floats: false when either side is nan
Leq(a, b) == ~IsNaN(a) /\ ~IsNaN(b) /\ a[1] * b[2] <= b[1] * a[2]

Less(a, b) == ~IsNaN(a) /\ ~IsNaN(b) /\ a[1] * b[2] < b[1] * a[2]

Eq(a, b) == ~IsNaN(a) /\ ~IsNaN(b) /\ a[1] * b[2] = b[1] * a[2]

Add(a, b) == <<a[1] * b[2] + b[1] * a[2], a[2] * b[2]>>

Sub(a, b) == <<a[1] * b[2] - b[1] * a[2], a[2] * b[2]>>

Mul(a, b) == <<a[1] * b[1], a[2] * b[2]>>

\* a / b for b > 0
Quot(a, b) == <<a[1] * b[2], a[2] * b[1]>>

RECURSIVE GCD(_, _)
GCD(a, b) == IF b = 0 THEN a ELSE GCD(b, a % b)

Abs(a) == IF a < 0 THEN -a ELSE a

\* the fraction a in lowest terms (nan stays nan)
Lowest(a) ==
    IF IsNaN(a) THEN NaN
    ELSE LET g == GCD(Abs(a[1]), a[2]) IN <<a[1] \div g, a[2] \div g>>

\* ---------------------------------------------------------- numpy helpers
RECURSIVE Flatten(_)
Flatten(h) == IF h = <<>> THEN <<>> ELSE Head(h) \o Flatten(Tail(h))

RECURSIVE Insert(_, _)
Insert(x, s) ==
    IF s = <<>> THEN <<x>>
    ELSE IF x <= Head(s) THEN <<x>> \o s
    ELSE <<Head(s)>> \o Insert(x, Tail(s))

RECURSIVE SortAsc(_)
SortAsc(s) == IF s = <<>> THEN <<>> ELSE Insert(Head(s), SortAsc(Tail(s)))

Reverse(s) == [i \in 1..Len(s) |-> s[Len(s) + 1 - i]]

RECURSIVE CumSum(_)
CumSum(s) ==
    IF s = <<>> THEN <<>>
    ELSE LET c == CumSum(SubSeq(s, 1, Len(s) - 1))
         IN  Append(c, (IF c = <<>> THEN 0 ELSE c[Len(c)]) + s[Len(s)])

\* the sequences of length n over S
RECURSIVE SeqsOf(_, _)
SeqsOf(S, n) ==
    IF n = 0 THEN {<<>>}
    ELSE {Append(s, x) : s \in SeqsOf(S, n - 1), x \in S}

Ascending(s) == \A i \in 1..(Len(s) - 1) : s[i] <= s[i+1]

StrictlyAscending(s) == \A i \in 1..(Len(s) - 1) : s[i] < s[i+1]

\* the same orders on sequences of fractions
AscendingF(s) == \A i \in 1..(Len(s) - 1) : Leq(s[i], s[i+1])

StrictlyAscendingF(s) == \A i \in 1..(Len(s) - 1) : Less(s[i], s[i+1])

RECURSIVE SumSeq(_)
SumSeq(s) == IF s = <<>> THEN 0 ELSE Head(s) + SumSeq(Tail(s))

MaxOf(S) == CHOOSE x \in S : \A y \in S : y <= x

MinOf(S) == CHOOSE x \in S : \A y \in S : x <= y

\* a[mask]: the entries of a at the positions where mask is TRUE, in order
RECURSIVE Masked(_, _)
Masked(a, mask) ==
    IF a = <<>> THEN <<>>
    ELSE (IF Head(mask) THEN <<Head(a)>> ELSE <<>>) \o Masked(Tail(a), Tail(mask))

Not(mask) == [i \in 1..Len(mask) |-> ~mask[i]]

AnyTrue(mask) == \E i \in 1..Len(mask) : mask[i]

\* np.diff(a) == 0, then np.pad(.., [1, 0], constant_values=False)
DiffZeroPadFront(a) == [i \in 1..Len(a) |-> i > 1 /\ a[i] - a[i-1] = 0]

\* ------------------------------------------------- plot._dfm_levels
\* data = data[np.argsort(data)[::-1]]
plot_sorted(h) == Reverse(SortAsc(Flatten(h)))

\* sm = np.cumsum(data); sm /= sm[-1]
plot_sm(d) ==
    LET c == CumSum(d) IN [i \in 1..Len(d) |-> Div(c[i], c[Len(c)])]

\* mutant of plot_level: the first entry of the subset instead of the last
plot_level_first(d, sm, v0) ==
    LET sub == Masked(d, [i \in 1..Len(d) |-> Leq(sm[i], v0)])
    IN  IF sub # <<>> THEN sub[1] ELSE d[1]

\* try: levels[i] = data[sm <= v0][-1]   except: levels[i] = data[0]
plot_level(d, sm, v0) ==
    LET sub == Masked(d, [i \in 1..Len(d) |-> Leq(sm[i], v0)])
    IN  IF sub # <<>> THEN sub[Len(sub)] ELSE d[1]

plot_loop(h, qs) ==
    LET d == plot_sorted(h)
        sm == plot_sm(d)
    IN  [i \in 1..Len(qs) |-> plot_level(d, sm, qs[i])]

\* the caller's data and quantiles after plot._dfm_levels: the body works on
\* np.asarray(data).flatten(), a copy, and only reads quantiles
plot_dfm_inputs(h, qs) == <<h, qs>>

\* mutant of plot_dfm_levels: the levels are returned in the order of the
\* quantiles, without levels.sort()
plot_dfm_levels_unsorted(h, qs) ==
    [thresholds |-> plot_loop(h, qs),
     levels |-> plot_loop(h, qs),
     quantiles |-> qs]

\* levels.sort(); the removal of bad levels is commented out in the source
plot_dfm_levels(h, qs) ==
    [thresholds |-> plot_loop(h, qs),
     levels |-> SortAsc(plot_loop(h, qs)),
     quantiles |-> qs]

\* ------------------------------------------------- corner._dfm_levels
corner_sorted(h) == Reverse(SortAsc(Flatten(h)))

corner_sm(d) ==
    LET c == CumSum(d) IN [i \in 1..Len(d) |-> Div(c[i], c[Len(c)])]

\* mutant of corner_level: the first density whose cumulative sum reaches v0
corner_level_over(d, sm, v0) ==
    LET sup == Masked(d, [i \in 1..Len(d) |-> Leq(v0, sm[i])])
    IN  IF sup # <<>> THEN sup[1] ELSE d[1]

\* mutant of corner_level: the fallback is the smallest density, hflat[-1]
corner_level_fallback_last(d, sm, v0) ==
    LET sub == Masked(d, [i \in 1..Len(d) |-> Leq(sm[i], v0)])
    IN  IF sub # <<>> THEN sub[Len(sub)] ELSE d[Len(d)]

\* try: pdf_levels[i] = hflat[sm <= v0][-1]   except: pdf_levels[i] = hflat[0]
corner_level(d, sm, v0) ==
    LET sub == Masked(d, [i \in 1..Len(d) |-> Leq(sm[i], v0)])
    IN  IF sub # <<>> THEN sub[Len(sub)] ELSE d[1]

corner_loop(h, qs) ==
    LET d == corner_sorted(h)
        sm == corner_sm(d)
    IN  [i \in 1..Len(qs) |-> corner_level(d, sm, qs[i])]

\* mutant of corner_bad: no level is ever marked bad
corner_bad_never(sorted) == [i \in 1..Len(sorted) |-> FALSE]

\* bad = (np.diff(pdf_levels) == 0); bad = np.pad(bad, [1, 0], ...)
corner_bad(sorted) == DiffZeroPadFront(sorted)

\* the caller's hist and cdf_levels after corner._dfm_levels: the body works
\* on hist.flatten(), a copy, and filters np.array(cdf_levels), a new array
corner_dfm_inputs(h, qs) == <<h, qs>>

\* pdf_levels.sort(); bad; np.delete(pdf_levels, np.where(bad)[0]);
\* if np.any(bad): cdf_levels = np.array(cdf_levels)[~bad]; pdf_levels.sort()
corner_dfm_levels(h, qs) ==
    LET pdf == corner_loop(h, qs)
        srt == SortAsc(pdf)
        bad == corner_bad(srt)
    IN  [thresholds |-> pdf,
         levels |-> SortAsc(Masked(srt, Not(bad))),
         quantiles |-> IF AnyTrue(bad) THEN Masked(qs, Not(bad)) ELSE qs]

\* ------------------------------------------------------- plot.contour1d
\* np.argsort(a): an index array that sorts a; the order of equal entries is
\* left open (the default sort kind is not stable).  ArgSortsOf(a, I) are the
\* orders of the positions I by ascending value.
RECURSIVE ArgSortsOf(_, _)
ArgSortsOf(a, I) ==
    IF I = {} THEN {<<>>}
    ELSE UNION {{<<i>> \o p : p \in ArgSortsOf(a, I \ {i})} :
                i \in {k \in I : \A m \in I : a[k] <= a[m]}}

ArgSorts(a) == ArgSortsOf(a, 1..Len(a))

\* a[idx]
Take(a, idx) == [i \in 1..Len(idx) |-> a[idx[i]]]

\* np.interp's search for the interval of x in xp (non-decreasing, no nan):
\* Len(xp) + 1 past the end, 0 before the start, otherwise the last position j
\* with xp[j] <= x, found by scanning while the next entry is <= x
RECURSIVE interp_scan(_, _, _)
interp_scan(x, xp, j) ==
    IF j < Len(xp) /\ Leq(xp[j + 1], x) THEN interp_scan(x, xp, j + 1) ELSE j

interp_search(x, xp) ==
    IF Less(xp[Len(xp)], x) THEN Len(xp) + 1
    ELSE IF Less(x, xp[1]) THEN 0
    ELSE interp_scan(x, xp, 1)

\* np.interp(x, xp, fp) for one x, with xp, fp of the same length >= 1
interp(x, xp, fp) ==
    IF Len(xp) = 1 THEN Num(fp[1])
    ELSE LET j == interp_search(x, xp)
         IN  IF j = 0 THEN Num(fp[1])
             ELSE IF j >= Len(xp) THEN Num(fp[Len(xp)])
             ELSE IF Eq(xp[j], x) THEN Num(fp[j])
             ELSE LET slope == Quot(Num(fp[j+1] - fp[j]), Sub(xp[j+1], xp[j]))
                  IN  Add(Mul(slope, Sub(x, xp[j])), Num(fp[j]))

\* a.reshape(rows, cols) of a flat array, row-major
Reshape(a, rows, cols) ==
    [r \in 1..rows |-> [c \in 1..cols |-> a[(r - 1) * cols + c]]]

\* a.T of a rows x cols array
Transpose(a, rows, cols) == [c \in 1..cols |-> [r \in 1..rows |-> a[r][c]]]

\* if weights is None: data = np.sort(data); else: data = data[idx]
contour_data(d, w, idx) == IF w = None THEN SortAsc(d) ELSE Take(d, idx)

\* if weights is None: cdf = np.arange(data.size) / (data.size - 1)
\* else: weights = weights[idx]; cdf = np.cumsum(weights) / np.sum(weights)
contour_cdf(d, w, idx) ==
    IF w = None THEN [i \in 1..Len(d) |-> Div(i - 1, Len(d) - 1)]
    ELSE LET c == CumSum(Take(Val(w), idx))
         IN  [i \in 1..Len(d) |-> Div(c[i], SumSeq(Val(w)))]

\* mutant of contour_qnts: the widths are not halved
contour_qnts_full(qs) ==
    [i \in 1..Len(qs) |-> Sub(<<1, 2>>, qs[i])]
        \o [i \in 1..Len(qs) |-> Add(<<1, 2>>, qs[i])]

\* quantiles = np.asarray(quantiles) / 2
\* qnts = np.append(0.5 - quantiles, 0.5 + quantiles)
contour_qnts(qs) ==
    [i \in 1..Len(qs) |-> Sub(<<1, 2>>, Quot(qs[i], Num(2)))]
        \o [i \in 1..Len(qs) |-> Add(<<1, 2>>, Quot(qs[i], Num(2)))]

\* mutant of contour_locs: reshape to (len(quantiles), 2) without transposing
contour_locs_rowwise(flat, m) == Reshape(flat, m, 2)

\* locs = np.interp(qnts, cdf, data).reshape(2, len(quantiles)).T
contour_locs(flat, m) == Transpose(Reshape(flat, 2, m), 2, m)

\* mutant of contour_median: the median line at the first sample
contour_median_first(cd, sd) == Num(sd[1])

\* mm = np.interp(0.5, cdf, data)
contour_median(cd, sd) == interp(<<1, 2>>, cd, sd)

\* mutant of contour_inputs: the sample is sorted in place (data.sort())
contour_inputs_sorted(d, w, qs) == <<SortAsc(d), w, qs>>

\* the caller's data, weights and quantiles after contour1d: np.sort(data),
\* data[idx], weights[idx] and np.asarray(quantiles) / 2 are new arrays bound
\* to the local names
contour_inputs(d, w, qs) == <<d, w, qs>>

\* mutant of contour_raised: an empty sample goes through np.interp unnoticed
contour_raised_lenient(d, qs) ==
    IF Len(qs) = 0 THEN "UnboundLocalError" ELSE "none"

\* the exception contour1d ends with: np.interp raises ValueError ("array of
\* sample points is empty") for an empty sample; the loop over locs binds
\* handle, so that without widths `return handle` fails
contour_raised(d, qs) ==
    IF Len(d) = 0 THEN "ValueError"
    ELSE IF Len(qs) = 0 THEN "UnboundLocalError"
    ELSE "none"

\* the body of contour1d from the CDF on; idx is np.argsort(data), taken in
\* the weighted branch only
contour1d(d, qs, w, med, idx) ==
    LET sd == contour_data(d, w, idx)
        cd == [i \in 1..Len(d) |-> Lowest(contour_cdf(d, w, idx)[i])]
        qnts == contour_qnts(qs)
    IN  IF contour_raised(d, qs) = "ValueError"
        THEN \* raised at np.interp, before anything is drawn
             [raised |-> contour_raised(d, qs), sdata |-> sd, cdf |-> cd,
              locs |-> <<>>, mm |-> None]
        ELSE [raised |-> contour_raised(d, qs),
              sdata |-> sd,
              cdf |-> cd,
              locs |-> contour_locs(
                          [i \in 1..Len(qnts) |-> Lowest(interp(qnts[i], cd, sd))],
                          Len(qs)),
              mm |-> IF med THEN Some(Lowest(contour_median(cd, sd))) ELSE None]

\* one index array of ArgSorts(d) for each arrangement of the weights it can
\* produce (index arrays that differ only in the order of equal samples with
\* equal weights give the same arrays)
ArgSortOutcomes(d, w) ==
    {CHOOSE idx \in ArgSorts(d) : Take(w, idx) = sw :
        sw \in {Take(w, idx) : idx \in ArgSorts(d)}}

\* ------------------------------ plot._pad_hist, corner.dist2d_data (pad)
\* np.arange(a, b)
arange(a, b) == [i \in 1..(b - a) |-> a + i - 1]

\* - t[::-1]
NegReversed(t) == [i \in 1..Len(t) |-> 0 - t[Len(t) + 1 - i]]

\* (rows, columns) of a grid
Shape(h) == <<Len(h), Len(h[1])>>

\* hist.min()
GridMin(h) ==
    CHOOSE v \in {h[i][j] : i \in 1..Len(h), j \in 1..Len(h[1])} :
        \A i \in 1..Len(h), j \in 1..Len(h[1]) : v <= h[i][j]

\* np.pad(h, p, mode='constant', constant_values=v)
PadConstant(h, p, v) ==
    [i \in 1..(Len(h) + 2 * p) |->
        [j \in 1..(Len(h[1]) + 2 * p) |->
            IF i - p \in 1..Len(h) /\ j - p \in 1..Len(h[1]) THEN h[i - p][j - p] ELSE v]]

\* the index k brought into 1..n
Clip(k, n) == IF k < 1 THEN 1 ELSE IF k > n THEN n ELSE k

\* np.pad(h, p, mode='edge')
PadEdge(h, p) ==
    [i \in 1..(Len(h) + 2 * p) |->
        [j \in 1..(Len(h[1]) + 2 * p) |->
            h[Clip(i - p, Len(h))][Clip(j - p, Len(h[1]))]]]

\* np.concatenate([ee[0] + tr * np.diff(ee[:2]), ee, ee[-1] + tf * np.diff(ee[-2:])])
\* for an edge array ee of two or more entries
extend_edges(ee, tr, tf) ==
    [i \in 1..Len(tr) |-> ee[1] + tr[i] * (ee[2] - ee[1])]
        \o ee
        \o [i \in 1..Len(tf) |-> ee[Len(ee)] + tf[i] * (ee[Len(ee)] - ee[Len(ee) - 1])]

\* mutant of plot_pad_grid: the grid is always padded by two cells
plot_pad_grid_two(h, p) == PadConstant(h, 2, GridMin(h))

\* hh = np.pad(hist, pad, mode='constant', constant_values=hist.min())
plot_pad_grid(h, p) == PadConstant(h, p, GridMin(h))

\* mutant of plot_tf: the offsets start at zero
plot_tf_from_zero(p) == arange(0, p)

\* tf = np.arange(1, pad+1)
plot_tf(p) == arange(1, p + 1)

\* plot._pad_hist(edges, hist, pad)
plot_pad_hist(e, h, p) ==
    [edges |-> [d \in 1..Len(e) |-> extend_edges(e[d], NegReversed(plot_tf(p)), plot_tf(p))],
     hist |-> plot_pad_grid(h, p)]

\* the caller's edges and hist after plot._pad_hist: np.pad and
\* np.concatenate return new arrays, the list of edges is rebuilt
pad_inputs(e, h) == <<e, h>>

\* tf = np.arange(2)
corner_tf == arange(0, 2)

\* corner.dist2d_data, `if pad:` branch
corner_pad(e, h, p) ==
    IF p # 0
    THEN [edges |-> [d \in 1..Len(e) |-> extend_edges(e[d], NegReversed(corner_tf), corner_tf)],
          hist |-> PadEdge(h, 2)]
    ELSE [edges |-> e, hist |-> h]

\* ------------------------------------------------- corner._parse_edges
\* The edges argument is a record: kind "none" (None), "scalar" (a number n),
\* "flat" (a list ns of numbers) or "arrays" (a list es of arrays).  An array
\* value is a record of its rank and its rows: rank 0 holds one number, rank 1
\* one row of numbers, rank 2 rows of equal length, and rank 3 is the 1-d
\* object array of arrays of unequal lengths.
EdgeSpec(kind, n, ns, es) == [kind |-> kind, n |-> n, ns |-> ns, es |-> es]

Array(rank, rows) == [rank |-> rank, rows |-> rows]

\* the rows do not all have the same length
Ragged(rows) == \E i, j \in 1..Len(rows) : Len(rows[i]) # Len(rows[j])

\* np.asarray of a list of arrays; of unequal lengths it is an object array in
\* numpy builds that still allow it (legacy), and a ValueError in the others
asarray_raises(rows, legacy) == Ragged(rows) /\ ~legacy

asarray(rows) == IF Ragged(rows) THEN Array(3, rows) ELSE Array(2, rows)

\* the array of an edges argument that is a list
spec_array(e) == IF e.kind = "flat" THEN Array(1, <<e.ns>>) ELSE asarray(e.es)

\* np.shape(a)
np_shape(a) ==
    IF a.rank = 0 THEN <<>>
    ELSE IF a.rank = 1 THEN <<Len(a.rows[1])>>
    ELSE IF a.rank = 2 THEN <<Len(a.rows), Len(a.rows[1])>>
    ELSE <<Len(a.rows)>>

\* np.squeeze(a): the axes of length one are removed
squeeze(a) ==
    IF a.rank = 1
    THEN IF Len(a.rows[1]) = 1 THEN Array(0, a.rows) ELSE a
    ELSE IF a.rank = 2
    THEN IF Len(a.rows) = 1 /\ Len(a.rows[1]) = 1 THEN Array(0, a.rows)
         ELSE IF Len(a.rows) = 1 THEN Array(1, a.rows)
         ELSE IF Len(a.rows[1]) = 1 THEN Array(1, <<[i \in 1..Len(a.rows) |-> a.rows[i][1]]>>)
         ELSE a
    ELSE a

\* utils.really1d(a): a is one-dimensional and its entries are scalars
really1d(a) == a.rank = 1

\* the largest k with k * k <= n
isqrt(n) == CHOOSE k \in 0..n : k * k <= n /\ (k + 1) * (k + 1) > n

\* utils.spacing(row, 'lin', num): num points from the smallest to the largest
\* value of the row, as fractions
spacing(row, num) ==
    LET lo == MinOf({row[i] : i \in 1..Len(row)})
        hi == MaxOf({row[i] : i \in 1..Len(row)})
    IN  [i \in 1..num |->
            IF num = 1 THEN Num(lo)
            ELSE Lowest(<<lo * (num - 1) + (i - 1) * (hi - lo), num - 1>>)]

\* np.all([np.ndim(ee) == 1 and np.size(ee) > 1 for ee in edges]): iterating a
\* 0-d array is a TypeError; the entries of a 1-d array are scalars
parse_entries_valid(a) ==
    IF a.rank = 1 THEN Len(a.rows[1]) = 0
    ELSE \A i \in 1..Len(a.rows) : Len(a.rows[i]) > 1

\* mutant of parse_validate: the dimensions are never checked
parse_validate_never(a, dims) == "none"

\* the checks after np.squeeze: the exception raised, or "none"
parse_validate(a, dims) ==
    IF dims = 1
    THEN IF really1d(a) THEN "none" ELSE "ValueError"
    ELSE IF a.rank = 0 THEN "TypeError"
    ELSE IF parse_entries_valid(a) THEN "none"
    ELSE "ValueError"

\* the bin numbers of the scalar branch: min(40, sqrt(pnts)) for None
parse_nbins(e, dims, pnts) ==
    IF e.kind = "none" THEN [ii \in 1..dims |-> IF isqrt(pnts) < 40 THEN isqrt(pnts) ELSE 40]
    ELSE IF e.kind = "scalar" THEN [ii \in 1..dims |-> e.n]
    ELSE e.ns

\* corner._parse_edges(edges, data); legacy tells whether the numpy build makes
\* object arrays of lists of arrays of unequal lengths
parse_edges(e, dat, legacy) ==
    LET dims == Len(dat)
        pnts == Len(dat[1])
        is_scalar == e.kind \in {"none", "scalar"}
        shape_raises == e.kind = "arrays" /\ asarray_raises(e.es, legacy)
        is_nbins == ~is_scalar /\ np_shape(spec_array(e)) = <<dims>> /\ really1d(spec_array(e))
        spaced == [ii \in 1..dims |-> spacing(dat[ii], parse_nbins(e, dims, pnts)[ii])]
        rows == IF is_scalar \/ is_nbins THEN spaced
                ELSE IF e.kind = "flat" THEN <<e.ns>> ELSE e.es
        arr == IF ~(is_scalar \/ is_nbins) /\ e.kind = "flat" THEN Array(1, rows)
               ELSE asarray(rows)
    IN  IF shape_raises \/ asarray_raises(rows, legacy)
        THEN [raised |-> "ValueError", edges |-> None]
        ELSE IF parse_validate(squeeze(arr), dims) # "none"
        THEN [raised |-> parse_validate(squeeze(arr), dims), edges |-> None]
        ELSE [raised |-> "none", edges |-> Some(squeeze(arr))]

\* ------------------------------------------------------------ plot.Corner
\* A dictionary is the set of its <<key, value>> items.
\* d.setdefault(k, v): the dictionary d after the call
setdefault(d, k, v) == IF \E it \in d : it[1] = k THEN d ELSE d \cup {<<k, v>>}

\* d after d.setdefault(k, v) for each <<k, v>> of the sequence kvs, in order
RECURSIVE setdefaults(_, _)
setdefaults(d, kvs) ==
    IF kvs = <<>> THEN d
    ELSE setdefaults(setdefault(d, Head(kvs)[1], Head(kvs)[2]), Tail(kvs))

\* the setdefault blocks of Corner.plot, Corner.hist, _kde1d/_kde2d and
\* _data1d/_data2d
plot_1d == <<<<"density", TRUE>>, <<"contour", TRUE>>, <<"carpet", TRUE>>, <<"hist", FALSE>>>>

plot_2d ==
    <<<<"hist", TRUE>>, <<"scatter", TRUE>>, <<"contour", TRUE>>,
      <<"mask_dense", TRUE>>, <<"mask_below", TRUE>>>>

hist_1d == <<<<"density", FALSE>>, <<"contour", FALSE>>, <<"carpet", FALSE>>, <<"hist", TRUE>>>>

hist_2d ==
    <<<<"hist", TRUE>>, <<"contour", FALSE>>, <<"scatter", FALSE>>,
      <<"mask_dense", FALSE>>, <<"mask_below", FALSE>>>>

kde_1d == <<<<"density", TRUE>>, <<"contour", TRUE>>, <<"carpet", FALSE>>, <<"hist", FALSE>>>>

kde_2d ==
    <<<<"hist", FALSE>>, <<"contour", TRUE>>, <<"scatter", FALSE>>,
      <<"mask_dense", TRUE>>, <<"mask_below", TRUE>>>>

data_1d == <<<<"density", FALSE>>, <<"contour", FALSE>>, <<"carpet", TRUE>>, <<"hist", TRUE>>>>

data_2d ==
    <<<<"hist", TRUE>>, <<"contour", FALSE>>, <<"scatter", TRUE>>,
      <<"mask_dense", TRUE>>, <<"mask_below", TRUE>>>>

\* the result of a Corner method: the exception raised, the dist1d and dist2d
\* objects it was given as they are after the call, the options handed on to
\* dist1d and dist2d, the weights handed on with them, and whether the block
\* under `if limit:` ran
CornerResult(exc, d1, d2, u1, u2, wu, lim) ==
    [raised |-> exc, dist1d |-> d1, dist2d |-> d2, used1d |-> u1, used2d |-> u2,
     wused |-> wu, limit |-> lim]

\* the method raised exc before it drew anything
CornerRaised(exc, d1, d2) == CornerResult(exc, d1, d2, None, None, None, FALSE)

\* A KDE instance is modelled by its weights, None when they are uniform
\* (kde._weights_uniform).  _parse_kde_data(kde_data, weights): is_kde tells
\* that kde_data is a KDE instance, of weights kw; the kde returned is the
\* instance, or KDE(kde_data, weights=w)
parse_kde_data(is_kde, kw, w) ==
    IF is_kde
    THEN IF w # None THEN [raised |-> "ValueError", kde |-> None, weights |-> None]
         ELSE [raised |-> "none", kde |-> kw, weights |-> kw]
    ELSE [raised |-> "none", kde |-> w, weights |-> w]

\* The Corner o is the record of self._kde is not None, self._weights and
\* self._limit_flag.  The arguments c of a call are the record of src, what
\* is passed as kde_data (data, kde): "self" for None, "data" for an array,
\* "kde" for a KDE instance of weights kw; of weights; and of limit.
CallArgs(src, kw, w, l) == [src |-> src, kw |-> kw, weights |-> w, limit |-> l]

\* mutant of corner_limit: a call without limit always updates the limits
corner_limit_always(o, l) == IF l = None THEN TRUE ELSE Val(l)

\* if limit is None: limit = self._limit_flag
corner_limit(o, l) == IF l = None THEN o.limit_flag ELSE Val(l)

\* Corner.plot_kde: _kde1d and _kde2d receive the kde and **dist1d, **dist2d,
\* a copy
corner_plot_kde(o, c, d1, d2) ==
    LET pk == parse_kde_data(c.src # "data",
                             IF c.src = "self" THEN o.weights ELSE c.kw, c.weights)
    IN  IF c.src = "self" /\ ~o.kde THEN CornerRaised("ValueError", d1, d2)
        ELSE IF pk.raised # "none" THEN CornerRaised(pk.raised, d1, d2)
        ELSE CornerResult("none", d1, d2,
                          Some(setdefaults(d1, kde_1d)), Some(setdefaults(d2, kde_2d)),
                          Some(pk.kde), corner_limit(o, c.limit))

\* Corner.plot_data: data None is self._data, an array; _data1d and _data2d
\* receive weights=weights and **dist1d, **dist2d, a copy
corner_plot_data(o, c, d1, d2) ==
    LET pk == parse_kde_data(c.src = "kde", c.kw, c.weights)
    IN  IF c.src = "self" /\ ~o.kde THEN CornerRaised("ValueError", d1, d2)
        ELSE IF pk.raised # "none" THEN CornerRaised(pk.raised, d1, d2)
        ELSE CornerResult("none", d1, d2,
                          Some(setdefaults(d1, data_1d)), Some(setdefaults(d2, data_2d)),
                          Some(pk.weights), corner_limit(o, c.limit))

\* Corner.plot: _parse_kde_data, setdefault on the dictionaries themselves,
\* then plot_kde(kde, .., limit=limit, dist1d=dist1d, dist2d=dist2d)
corner_plot(o, c, d1, d2) ==
    LET pk == parse_kde_data(c.src # "data",
                             IF c.src = "self" THEN o.weights ELSE c.kw, c.weights)
    IN  IF c.src = "self" /\ ~o.kde THEN CornerRaised("ValueError", d1, d2)
        ELSE IF pk.raised # "none" THEN CornerRaised(pk.raised, d1, d2)
        ELSE corner_plot_kde(o, CallArgs("kde", pk.kde, None, c.limit),
                             setdefaults(d1, plot_1d), setdefaults(d2, plot_2d))

\* Corner.hist: _parse_kde_data, setdefault on the dictionaries themselves,
\* then plot_data(data, dist1d=dist1d, dist2d=dist2d, **kwargs); limit is one
\* of the kwargs, weights is not
corner_hist(o, c, d1, d2) ==
    LET pk == parse_kde_data(c.src # "data",
                             IF c.src = "self" THEN o.weights ELSE c.kw, c.weights)
    IN  IF c.src = "self" /\ ~o.kde THEN CornerRaised("ValueError", d1, d2)
        ELSE IF pk.raised # "none" THEN CornerRaised(pk.raised, d1, d2)
        ELSE corner_plot_data(o, CallArgs("data", None, None, c.limit),
                              setdefaults(d1, hist_1d), setdefaults(d2, hist_2d))

\* the method fn of Corner
corner_call(fn, o, c, d1, d2) ==
    IF fn = "plot" THEN corner_plot(o, c, d1, d2)
    ELSE IF fn = "hist" THEN corner_hist(o, c, d1, d2)
    ELSE IF fn = "plot_data" THEN corner_plot_data(o, c, d1, d2)
    ELSE corner_plot_kde(o, c, d1, d2)

\* -------------------------------------------------- drawing entry points
\* A flag argument is None, Some(TRUE) or Some(FALSE).  The result of an entry
\* point is the exception it ends with, the calls it issued on the axes, in
\* order, and the edges and grid it worked on last.  The axes accept every
\* call: what matplotlib checks inside a call is not part of the model.
DrawResult(exc, cs, e, h) == [raised |-> exc, calls |-> cs, edges |-> e, hist |-> h]

\* corner._none_dict(val, name): None for False and None, a dict otherwise
corner_none_dict(val) == IF val = None \/ val = Some(FALSE) THEN None ELSE Some({})

\* corner._DEF_SIGMAS = np.arange(0.5, 2.1, 0.5)
corner_DEF_SIGMAS == <<<<1, 2>>, <<1, 1>>, <<3, 2>>, <<2, 1>>>>

\* np.atleast_2d(data) as _parse_edges sees it: None becomes a 1 x 1 array
atleast_2d(dat) == IF dat = <<>> THEN <<<<0>>>> ELSE dat

\* the axes calls of corner._draw_hist1d with its defaults median=True,
\* sigmas=True, span=None, rotate=False, on data whose spans have lo < hi for
\* every sigma > 0: the step plot, then for sigma 0 the median line (lo == hi)
\* and its span, then one span per default sigma
corner_draw_hist1d_calls ==
    <<"plot", "axvline", "axvspan">> \o [i \in 1..Len(corner_DEF_SIGMAS) |-> "axvspan"]

\* corner.dist1d_data(ax, edges, hist=h, data=dat, hist1d=a.hist,
\* carpet=a.carpet): e is one edge array, h one row of densities, dat the
\* samples or <<>> for None
corner_dist1d_data(e, h, dat, a, legacy) ==
    LET carpet0 == IF a.carpet = None THEN Some(dat # <<>>) ELSE a.carpet
        hist1d == corner_none_dict(a.hist)
        carpet == corner_none_dict(carpet0)
        pe == parse_edges(EdgeSpec("flat", 0, e, <<>>), atleast_2d(IF dat = <<>> THEN dat ELSE <<dat>>), legacy)
        c1 == IF hist1d # None THEN corner_draw_hist1d_calls ELSE <<>>
    IN  IF pe.raised # "none" THEN DrawResult(pe.raised, <<>>, <<e>>, <<h>>)
        ELSE IF Len(h) # Len(Val(pe.edges).rows[1]) - 1
        THEN DrawResult("ValueError", <<>>, <<e>>, <<h>>)
        ELSE IF hist1d # None /\ dat = <<>>
        THEN \* np.sort(None) in _draw_hist1d, after ax.plot
             DrawResult("AxisError", <<"plot">>, <<e>>, <<h>>)
        ELSE IF carpet # None
        THEN \* plot.draw_carpet_fuzz is not defined in plot.py
             DrawResult("AttributeError", c1, <<e>>, <<h>>)
        ELSE DrawResult("none", c1, <<e>>, <<h>>)

\* corner.dist2d_data(ax, edges, hist=h, data=dat, smap=.., scatter=a.scatter,
\* median=a.median, hist2d=a.hist, contour=a.contour, pad=p,
\* mask_dense=a.mask_dense); a.smap tells whether smap is a ScalarMappable
corner_dist2d_data(e, h, dat, a, p, legacy) ==
    LET scatter0 == IF a.scatter = None THEN Some(dat # <<>>) ELSE a.scatter
        median0 == IF a.median = None THEN scatter0 ELSE a.median
        hist2d == corner_none_dict(a.hist)
        scatter == corner_none_dict(scatter0)
        contour == corner_none_dict(a.contour)
        pe == parse_edges(EdgeSpec("arrays", 0, <<>>, e), atleast_2d(dat), legacy)
        gsh == [d \in 1..Len(e) |-> Len(Val(pe.edges).rows[d]) - 1]
        c1 == IF scatter # None THEN <<"scatter">> ELSE <<>>
        c2 == c1 \o (IF hist2d # None THEN <<"pcolormesh">> ELSE <<>>)
        c3 == c2 \o (IF median0 # None THEN <<"axvline", "axhline">> ELSE <<>>)
        padded == corner_pad(e, h, p)
        c4 == c3 \o (IF a.mask_dense /\ scatter # None THEN <<"contourf">> ELSE <<>>)
        c5 == c4 \o (IF contour # None THEN <<"contour", "contour">> ELSE <<>>)
    IN  IF pe.raised # "none" THEN DrawResult(pe.raised, <<>>, <<>>, <<>>)
        ELSE IF Shape(h) # gsh THEN DrawResult("ValueError", <<>>, <<>>, <<>>)
        ELSE IF ~a.smap
        THEN \* plot.smap is not defined in plot.py
             DrawResult("AttributeError", <<>>, <<>>, <<>>)
        ELSE IF scatter # None /\ dat = <<>>
        THEN \* _draw_scatter(ax, *data, ..) with data None
             DrawResult("TypeError", <<>>, <<>>, <<>>)
        ELSE IF median0 # None /\ dat = <<>>
        THEN \* zip(data, ..) with data None
             DrawResult("TypeError", c2, <<>>, <<>>)
        ELSE DrawResult("none", c5, padded.edges, padded.hist)

\* plot._match_edges_to_hist(edges, hist): the exception raised, or "none"
match_edges_to_hist(e, h) ==
    LET esh == [d \in 1..Len(e) |-> Len(e[d])]
        esh_p1 == [d \in 1..Len(e) |-> Len(e[d]) - 1]
    IN  IF Shape(h) = esh \/ Shape(h) = esh_p1 THEN "none" ELSE "ValueError"

\* plot.draw_contour2d(ax, edges, hist, pad=p) with outline=True and neither
\* smooth nor upsample
plot_draw_contour2d(e, h, p) ==
    LET r == IF p # 0 THEN plot_pad_hist(e, h, p) ELSE [edges |-> e, hist |-> h]
    IN  IF match_edges_to_hist(r.edges, r.hist) # "none"
        THEN DrawResult("ValueError", <<>>, r.edges, r.hist)
        ELSE DrawResult("none", <<"contour">>, r.edges, r.hist)

\* plot.draw_hist2d(ax, edges, hist): ax.pcolormesh(*edges, hist.T, ..) with
\* no check before it
plot_draw_hist2d(e, h) == DrawResult("none", <<"pcolormesh">>, e, h)

\* ------------------------------------------------------------ plot.dist1d
\* The result of dist1d: the exception it ends with, the steps it called, each
\* with the weights it handed to the step, and what contour1d computed.
Dist1dResult(exc, cs, r) ==
    [raised |-> exc, calls |-> cs, sdata |-> r.sdata, cdf |-> r.cdf,
     locs |-> r.locs, mm |-> r.mm]

\* contour1d was not called
NoContour == [sdata |-> <<>>, cdf |-> <<>>, locs |-> <<>>, mm |-> None]

\* the weights dist1d works with: those of the KDE instance, None when they
\* are uniform (kde._weights_uniform), or the weights argument with raw data
dist1d_weights(w, a) == IF a.kde THEN (IF a.uniform THEN None ELSE w) ELSE w

\* plot.dist1d(kde_data, weights=.., density=a.density, contour=a.contour,
\* hist=a.hist, carpet=a.carpet, quantiles=..): a.kde tells that kde_data is a
\* KDE instance (w are then its weights, a.override tells that a weights
\* argument is passed as well), a.qgiven that quantiles is not None
plot_dist1d(d, w, qs, a) ==
    LET w1 == dist1d_weights(w, a)
        dens == IF a.density = None THEN a.kde ELSE Val(a.density)
        hst == IF a.hist = None THEN ~a.kde ELSE Val(a.hist)
        c1 == IF dens THEN <<<<"density", w>>>> ELSE <<>>
        c2 == c1 \o (IF hst THEN <<<<"hist1d", w1>>>> ELSE <<>>)
        c3 == c2 \o (IF a.contour THEN <<<<"contour1d", None>>>> ELSE <<>>)
        c4 == c3 \o (IF a.carpet THEN <<<<"carpet", w1>>>> ELSE <<>>)
        r == contour1d(d, qs, None, TRUE, <<>>)
    IN  IF a.kde /\ a.override THEN Dist1dResult("ValueError", <<>>, NoContour)
        ELSE IF ~a.contour THEN Dist1dResult("none", c4, NoContour)
        ELSE IF ~a.qgiven
        THEN \* np.asarray(None) / 2 in contour1d
             Dist1dResult("TypeError", c3, NoContour)
        ELSE IF r.raised # "none" THEN Dist1dResult(r.raised, c3, r)
        ELSE Dist1dResult("none", c4, r)

\* ---------------------------------------------------------------- inputs
\* grids of every shape with at most MaxCells cells, entries 0..MaxDens
Grids ==
    UNION {SeqsOf(SeqsOf(0..MaxDens, c), r) :
           <<r, c>> \in {rc \in (1..MaxCells) \X (1..MaxCells) : rc[1] * rc[2] <= MaxCells}}

\* the target probabilities a caller may ask for: the sixths in (0, 1)
QuantileChoices == {<<1, 6>>, <<1, 3>>, <<1, 2>>, <<2, 3>>, <<5, 6>>}

\* strictly ascending lists of at most MaxQ target probabilities
QuantileLists ==
    {s \in UNION {SeqsOf(QuantileChoices, n) : n \in 0..MaxQ} : StrictlyAscendingF(s)}

\* no padding call is in play
PadIdle == edges = <<>> /\ pad = 0 /\ pedges = <<>> /\ phist = <<>>

\* no _parse_edges call is in play
ParseIdle == espec = <<>> /\ params = <<>> /\ parsed = None

\* the methods of Corner that take dist1d and dist2d
CornerMethods == {"plot", "hist", "plot_data", "plot_kde"}

\* the default dictionaries as the def statements create them
EmptyDefaults == [fn \in CornerMethods |-> [dist1d |-> {}, dist2d |-> {}]]

\* no Corner is in play
CornerIdle ==
    /\ has_kde = FALSE
    /\ defaults = EmptyDefaults
    /\ udist1d = {}
    /\ udist2d = {}
    /\ used1d = None
    /\ used2d = None
    /\ nodicts = TRUE
    /\ cweights = None
    /\ limit_flag = TRUE
    /\ climits = <<>>
    /\ cargs = None
    /\ wused = None
    /\ reset = FALSE

\* no drawing entry point is in play
DrawIdle == dargs = None /\ calls = <<>>

\* ------------------------------------------------------- level-solver spec
Init ==
    /\ pc = "init"
    /\ raised = "none"
    /\ hist \in Grids
    /\ cdf_levels \in QuantileLists
    /\ thresholds = <<>>
    /\ levels = <<>>
    /\ kept = <<>>
    /\ data = <<>>
    /\ weights = None
    /\ quantiles = <<>>
    /\ median = FALSE
    /\ sdata = <<>>
    /\ cdf = <<>>
    /\ locs = <<>>
    /\ mm = None
    /\ PadIdle
    /\ ParseIdle
    /\ CornerIdle
    /\ DrawIdle

PlotDfmLevels ==
    \E r \in {plot_dfm_levels(hist, cdf_levels)}, a \in {plot_dfm_inputs(hist, cdf_levels)} :
        /\ pc' = "plot._dfm_levels"
        /\ raised' = "none"
        /\ thresholds' = r.thresholds
        /\ levels' = r.levels
        /\ kept' = r.quantiles
        /\ hist' = a[1]
        /\ cdf_levels' = a[2]
        /\ UNCHANGED <<contourVars, padVars, parseVars, cornerVars, drawVars>>

CornerDfmLevels ==
    \E r \in {corner_dfm_levels(hist, cdf_levels)}, a \in {corner_dfm_inputs(hist, cdf_levels)} :
        /\ pc' = "corner._dfm_levels"
        /\ raised' = "none"
        /\ thresholds' = r.thresholds
        /\ levels' = r.levels
        /\ kept' = r.quantiles
        /\ hist' = a[1]
        /\ cdf_levels' = a[2]
        /\ UNCHANGED <<contourVars, padVars, parseVars, cornerVars, drawVars>>

Next == PlotDfmLevels \/ CornerDfmLevels

Spec == Init /\ [][Next]_vars

\* --------------------------------------------------------- contour1d spec
\* the values a sample may hold
SampleChoices == {0, 1, 2}

\* samples of up to MaxN values, in any order
Samples == UNION {SeqsOf(SampleChoices, n) : n \in 0..MaxN}

\* the weights a sample may carry
WeightChoices == {0, 1, 2}

\* None, or one weight per sample with a positive total (no weights at all for
\* the empty sample)
WeightsFor(d) ==
    {None} \cup {Some(w) : w \in {v \in SeqsOf(WeightChoices, Len(d)) :
                                      Len(d) = 0 \/ SumSeq(v) > 0}}

\* the widths a caller may ask for: a quarter and the defaults [0.5, 0.9]
WidthChoices == {<<1, 4>>, <<1, 2>>, <<9, 10>>}

\* strictly ascending lists of at most MaxWidths widths in (0, 1)
WidthLists ==
    {s \in UNION {SeqsOf(WidthChoices, n) : n \in 0..MaxWidths} :
        StrictlyAscendingF(s)}

InitContour ==
    /\ pc = "init"
    /\ raised = "none"
    /\ hist = <<<<1>>>>
    /\ cdf_levels = <<>>
    /\ thresholds = <<>>
    /\ levels = <<>>
    /\ kept = <<>>
    /\ data \in Samples
    /\ weights \in WeightsFor(data)
    /\ quantiles \in WidthLists
    /\ median \in BOOLEAN
    /\ sdata = <<>>
    /\ cdf = <<>>
    /\ locs = <<>>
    /\ mm = None
    /\ PadIdle
    /\ ParseIdle
    /\ CornerIdle
    /\ DrawIdle

Contour1d ==
    /\ pc = "init"
    /\ \E idx \in (IF weights = None THEN {<<>>}
                   ELSE ArgSortOutcomes(data, Val(weights))) :
         \E r \in {contour1d(data, quantiles, weights, median, idx)},
            a \in {contour_inputs(data, weights, quantiles)} :
            /\ pc' = "contour1d"
            /\ raised' = r.raised
            /\ sdata' = r.sdata
            /\ cdf' = r.cdf
            /\ locs' = r.locs
            /\ mm' = r.mm
            /\ data' = a[1]
            /\ weights' = a[2]
            /\ quantiles' = a[3]
            /\ UNCHANGED median
            /\ UNCHANGED <<levelVars, padVars, parseVars, cornerVars, drawVars>>

NextContour == Contour1d

SpecContour == InitContour /\ [][NextContour]_vars

\* ------------------------------------------------------------ padding spec
\* the shapes and the densities of the grids that are padded
PadShapes == {<<1, 1>>, <<1, 2>>, <<2, 1>>, <<2, 2>>}

PadDensities == {0, 1, 2}

PadGrids == UNION {SeqsOf(SeqsOf(PadDensities, rc[2]), rc[1]) : rc \in PadShapes}

\* the spacings between neighbouring edges
SpacingChoices == {1, 2}

\* the edge arrays of n bins: strictly increasing, n + 1 entries from 0 on
EdgesOf(n) == {<<0>> \o CumSum(sp) : sp \in SeqsOf(SpacingChoices, n)}

\* no level solver and no contour1d call is in play
LevelIdle == cdf_levels = <<>> /\ thresholds = <<>> /\ levels = <<>> /\ kept = <<>>

ContourIdle ==
    /\ data = <<>>
    /\ weights = None
    /\ quantiles = <<>>
    /\ median = FALSE
    /\ sdata = <<>>
    /\ cdf = <<>>
    /\ locs = <<>>
    /\ mm = None

\* the flags of corner.dist2d_data and corner.dist1d_data as their signatures
\* set them (smap=None: no ScalarMappable)
DefaultDrawArgs ==
    [scatter |-> None, median |-> None, carpet |-> None, hist |-> Some(TRUE),
     contour |-> Some(TRUE), mask_dense |-> TRUE, smap |-> FALSE]

\* data of two parameters, four samples each
DrawData == <<<<0, 1, 2, 3>>, <<0, 2, 3, 4>>>>

InitPad ==
    /\ pc = "init"
    /\ raised = "none"
    /\ hist \in PadGrids
    /\ edges \in {<<ex, ey>> : ex \in EdgesOf(Len(hist)), ey \in EdgesOf(Len(hist[1]))}
    /\ pad \in 0..MaxPad
    /\ pedges = <<>>
    /\ phist = <<>>
    /\ LevelIdle
    /\ ContourIdle
    /\ espec = <<>>
    /\ params = DrawData
    /\ parsed = None
    /\ CornerIdle
    /\ dargs = [DefaultDrawArgs EXCEPT !.smap = TRUE]
    /\ calls = <<>>

PadHist ==
    /\ pc = "init"
    /\ \E r \in {plot_pad_hist(edges, hist, pad)}, a \in {pad_inputs(edges, hist)} :
         /\ pc' = "_pad_hist"
         /\ raised' = "none"
         /\ pedges' = r.edges
         /\ phist' = r.hist
         /\ edges' = a[1]
         /\ hist' = a[2]
         /\ UNCHANGED pad
         /\ UNCHANGED <<cdf_levels, thresholds, levels, kept>>
         /\ UNCHANGED <<contourVars, parseVars, cornerVars, drawVars>>

\* corner.dist2d_data, the whole call; pedges and phist are the edges and the
\* grid that reach the contour calls
Dist2dData ==
    /\ pc = "init"
    /\ \E legacy \in BOOLEAN :
         \E r \in {corner_dist2d_data(edges, hist, params, dargs, pad, legacy)} :
            /\ pc' = "dist2d_data"
            /\ raised' = r.raised
            /\ calls' = r.calls
            /\ pedges' = r.edges
            /\ phist' = r.hist
            /\ UNCHANGED <<edges, pad, dargs>>
            /\ UNCHANGED <<levelVars, contourVars, parseVars, cornerVars>>

NextPad == PadHist \/ Dist2dData

SpecPad == InitPad /\ [][NextPad]_vars

\* ------------------------------------------------------------ drawing spec
\* grids of the padding shapes, every cell 1
DrawGrids == {[i \in 1..rc[1] |-> [j \in 1..rc[2] |-> 1]] : rc \in PadShapes}

\* the edge array 0, 1, .., n - 1
EdgesOfLen(n) == [i \in 1..n |-> i - 1]

\* two edge arrays of 2..MaxEdgeLen entries each, matching the grid or not
DrawEdges == {<<EdgesOfLen(a), EdgesOfLen(b)>> : a, b \in 2..MaxEdgeLen}

Flags == {None, Some(TRUE), Some(FALSE)}

\* the flags given to dist2d_data, and those given to dist1d_data
DrawArgs ==
    {[DefaultDrawArgs EXCEPT !.scatter = sc, !.median = md, !.hist = Some(hs),
                             !.contour = Some(ct), !.mask_dense = mk, !.smap = sm] :
        sc \in Flags, md \in Flags, hs \in BOOLEAN, ct \in BOOLEAN,
        mk \in {TRUE}, sm \in BOOLEAN}
      \cup {[DefaultDrawArgs EXCEPT !.carpet = cp, !.hist = Some(hs)] :
                cp \in Flags, hs \in BOOLEAN}

InitDraw ==
    /\ pc = "init"
    /\ raised = "none"
    /\ hist \in DrawGrids
    /\ edges \in DrawEdges
    /\ pad \in 0..MaxPad
    /\ pedges = <<>>
    /\ phist = <<>>
    /\ LevelIdle
    /\ ContourIdle
    /\ espec = <<>>
    /\ params \in {<<>>, DrawData}
    /\ parsed = None
    /\ CornerIdle
    /\ dargs \in DrawArgs
    /\ calls = <<>>

\* corner.dist1d_data on the second dimension: its edges and the first row of
\* the grid, with the samples of the second parameter
Dist1dData ==
    /\ pc = "init"
    /\ \E legacy \in BOOLEAN :
         \E r \in {corner_dist1d_data(edges[2], hist[1],
                                      IF params = <<>> THEN <<>> ELSE params[2],
                                      dargs, legacy)} :
            /\ pc' = "dist1d_data"
            /\ raised' = r.raised
            /\ calls' = r.calls
            /\ pedges' = r.edges
            /\ phist' = r.hist
            /\ UNCHANGED <<edges, pad, dargs>>
            /\ UNCHANGED <<levelVars, contourVars, parseVars, cornerVars>>

DrawContour2d ==
    /\ pc = "init"
    /\ \E r \in {plot_draw_contour2d(edges, hist, pad)} :
         /\ pc' = "draw_contour2d"
         /\ raised' = r.raised
         /\ calls' = r.calls
         /\ pedges' = r.edges
         /\ phist' = r.hist
         /\ UNCHANGED <<edges, pad, dargs>>
         /\ UNCHANGED <<levelVars, contourVars, parseVars, cornerVars>>

DrawHist2d ==
    /\ pc = "init"
    /\ \E r \in {plot_draw_hist2d(edges, hist)} :
         /\ pc' = "draw_hist2d"
         /\ raised' = r.raised
         /\ calls' = r.calls
         /\ pedges' = r.edges
         /\ phist' = r.hist
         /\ UNCHANGED <<edges, pad, dargs>>
         /\ UNCHANGED <<levelVars, contourVars, parseVars, cornerVars>>

NextDraw == Dist1dData \/ Dist2dData \/ DrawContour2d \/ DrawHist2d

SpecDraw == InitDraw /\ [][NextDraw]_vars

\* ------------------------------------------------------------- dist1d spec
\* samples of two and three values, unsorted and with a repeated value
Dist1dSamples == {<<0, 1>>, <<2, 0, 1>>, <<0, 1, 1>>}

\* the width lists handed on to contour1d
Dist1dWidths == {<<<<1, 2>>>>, <<<<1, 2>>, <<9, 10>>>>}

\* the arguments of dist1d: raw data, or a KDE instance
Dist1dArgs ==
    {[kde |-> FALSE, uniform |-> FALSE, override |-> FALSE, density |-> dn,
      hist |-> hs, contour |-> ct, carpet |-> cp, qgiven |-> qg] :
        dn \in Flags, hs \in Flags, ct \in BOOLEAN, cp \in BOOLEAN, qg \in BOOLEAN}
      \cup {[kde |-> TRUE, uniform |-> un, override |-> ov, density |-> dn,
              hist |-> hs, contour |-> ct, carpet |-> cp, qgiven |-> qg] :
                un \in BOOLEAN, ov \in BOOLEAN, dn \in Flags, hs \in Flags,
                ct \in BOOLEAN, cp \in BOOLEAN, qg \in BOOLEAN}

InitDist1d ==
    /\ pc = "init"
    /\ raised = "none"
    /\ hist = <<<<1>>>>
    /\ LevelIdle
    /\ data \in Dist1dSamples
    /\ weights \in WeightsFor(data)
    /\ quantiles \in Dist1dWidths
    /\ median = TRUE
    /\ sdata = <<>>
    /\ cdf = <<>>
    /\ locs = <<>>
    /\ mm = None
    /\ PadIdle
    /\ ParseIdle
    /\ CornerIdle
    /\ dargs \in {a \in Dist1dArgs : a.kde => weights # None}
    /\ calls = <<>>

Dist1d ==
    /\ pc = "init"
    /\ \E r \in {plot_dist1d(data, weights, quantiles, dargs)} :
         /\ pc' = "dist1d"
         /\ raised' = r.raised
         /\ calls' = r.calls
         /\ sdata' = r.sdata
         /\ cdf' = r.cdf
         /\ locs' = r.locs
         /\ mm' = r.mm
         /\ UNCHANGED <<data, weights, quantiles, median, dargs>>
         /\ UNCHANGED <<levelVars, padVars, parseVars, cornerVars>>

NextDist1d == Dist1d

SpecDist1d == InitDist1d /\ [][NextDist1d]_vars

\* --------------------------------------------------- core operations spec
\* the level solvers, contour1d and the padding, each called on the inputs
\* drawn for it
InitCore == Init \/ InitContour \/ InitPad

NextCore ==
    \/ (ContourIdle /\ PadIdle /\ Next)
    \/ (LevelIdle /\ PadIdle /\ NextContour)
    \/ (LevelIdle /\ ContourIdle /\ ~DrawIdle /\ NextPad)

SpecCore == InitCore /\ [][NextCore]_vars

\* ------------------------------------------------------- _parse_edges spec
\* the samples of one parameter
ParamSamples == {<<0, 1, 2, 3>>, <<1, 1, 1, 1>>, <<0, 0, 2, 4>>}

\* data of 1..MaxDims parameters
ParamData == UNION {SeqsOf(ParamSamples, d) : d \in 1..MaxDims}

\* numbers of bins
BinChoices == {1, 2, 3}

\* explicit edge arrays: increasing ones of two lengths, one that decreases,
\* one with a repeated edge, and one of a single entry
EdgeArrayChoices == {<<0, 1>>, <<0, 2, 4>>, <<1, 0>>, <<0, 0, 1>>, <<5>>}

EdgeSpecs ==
    {EdgeSpec("none", 0, <<>>, <<>>)}
        \cup {EdgeSpec("scalar", n, <<>>, <<>>) : n \in BinChoices}
        \cup {EdgeSpec("flat", 0, ns, <<>>) :
                ns \in UNION {SeqsOf(BinChoices, k) : k \in 0..MaxEntries}}
        \cup {EdgeSpec("arrays", 0, <<>>, es) :
                es \in UNION {SeqsOf(EdgeArrayChoices, k) : k \in 1..MaxEntries}}

InitParse ==
    /\ pc = "init"
    /\ raised = "none"
    /\ hist = <<<<1>>>>
    /\ LevelIdle
    /\ ContourIdle
    /\ PadIdle
    /\ CornerIdle
    /\ DrawIdle
    /\ espec \in EdgeSpecs
    /\ params \in ParamData
    /\ parsed = None

ParseEdges ==
    /\ pc = "init"
    /\ \E legacy \in BOOLEAN :
         \E r \in {parse_edges(espec, params, legacy)} :
            /\ pc' = "_parse_edges"
            /\ raised' = r.raised
            /\ parsed' = r.edges
            /\ UNCHANGED <<espec, params>>
            /\ UNCHANGED <<levelVars, contourVars, padVars, cornerVars, drawVars>>

NextParse == ParseEdges

SpecParse == InitParse /\ [][NextParse]_vars

\* -------------------------------------------------------------- Corner spec
\* the dist1d and dist2d dictionaries a caller may own
UserDist1d == {{}, {<<"hist", TRUE>>}, {<<"contour", FALSE>>, <<"carpet", FALSE>>}}

UserDist2d == {{}, {<<"scatter", FALSE>>}}

\* what a call may pass as kde_data (data, kde)
CornerSources == {"self", "data", "kde"}

\* the number of parameters of the Corner
CornerSize == 2

\* self._limits after __init__(limits=None)
NoLimits == [ii \in 1..CornerSize |-> None]

\* the limits utils.minmax may return for one parameter
LimitChoices == {Some(<<-1, 11>>), Some(<<-6, 6>>)}

InitCorner ==
    /\ pc = "init"
    /\ raised = "none"
    /\ hist = <<<<1>>>>
    /\ LevelIdle
    /\ ContourIdle
    /\ PadIdle
    /\ ParseIdle
    /\ DrawIdle
    /\ has_kde \in BOOLEAN
    /\ defaults = EmptyDefaults
    /\ udist1d \in UserDist1d
    /\ udist2d \in UserDist2d
    /\ used1d = None
    /\ used2d = None
    /\ nodicts = TRUE
    /\ cweights = None
    /\ limit_flag = TRUE
    /\ climits = NoLimits
    /\ cargs = None
    /\ wused = None
    /\ reset = FALSE

\* one call of the method fn.  S: what is passed as kde_data; P: whether the
\* caller's dist1d and dist2d are passed; W: the weights a call may pass or a
\* passed KDE may hold; L: the limit arguments; M: what utils.minmax may
\* return.  When the block under `if limit:` runs, every entry of self._limits
\* becomes what utils.minmax returns (the same for every parameter: the data
\* have one extent) and the axes extrema are set.
CornerCall(fn, S, P, W, L, M) ==
    \E src \in S, p1, p2 \in P, w \in W, l \in L :
      \E o \in {[kde |-> has_kde, weights |-> cweights, limit_flag |-> limit_flag]} :
        \E kw \in (IF src = "kde" THEN W ELSE {None}),
           new \in (IF corner_limit(o, l) THEN {[ii \in 1..CornerSize |-> m] : m \in M}
                    ELSE {climits}) :
          \E r \in {corner_call(fn, o, CallArgs(src, kw, w, l),
                                IF p1 THEN udist1d ELSE defaults[fn].dist1d,
                                IF p2 THEN udist2d ELSE defaults[fn].dist2d)} :
            /\ pc' = fn
            /\ raised' = r.raised
            /\ udist1d' = IF p1 THEN r.dist1d ELSE udist1d
            /\ udist2d' = IF p2 THEN r.dist2d ELSE udist2d
            /\ defaults' = [defaults EXCEPT
                              ![fn].dist1d = IF p1 THEN @ ELSE r.dist1d,
                              ![fn].dist2d = IF p2 THEN @ ELSE r.dist2d]
            /\ used1d' = r.used1d
            /\ used2d' = r.used2d
            /\ nodicts' = (nodicts /\ ~p1 /\ ~p2)
            /\ cargs' = Some(<<src, kw, w, l>>)
            /\ wused' = r.wused
            /\ reset' = r.limit
            /\ climits' = IF r.limit THEN new ELSE climits
            /\ UNCHANGED <<has_kde, cweights, limit_flag>>
            /\ UNCHANGED <<levelVars, contourVars, padVars, parseVars, drawVars>>

\* calls that pass data or nothing, without weights and without limit
NextCorner ==
    \E fn \in CornerMethods :
        CornerCall(fn, {"self", "data"}, BOOLEAN, {None}, {None}, {Some(<<-1, 11>>)})

SpecCorner == InitCorner /\ [][NextCorner]_vars

\* ---------------------------------------------- Corner weights and limits
\* the weights a Corner, a call or a KDE instance may hold
CornerWeights == {None, Some(<<2, 1, 1, 0>>)}

\* self._limits and self._limit_flag after __init__: limits=None, or explicit
\* limits, one entry per parameter, each None or a pair
InitLimits ==
    {<<TRUE, NoLimits>>,
     <<FALSE, [ii \in 1..CornerSize |-> Some(<<0, 10>>)]>>,
     <<FALSE, [ii \in 1..CornerSize |-> IF ii = 1 THEN None ELSE Some(<<-5, 5>>)]>>}

InitCornerData ==
    /\ pc = "init"
    /\ raised = "none"
    /\ hist = <<<<1>>>>
    /\ LevelIdle
    /\ ContourIdle
    /\ PadIdle
    /\ ParseIdle
    /\ DrawIdle
    /\ has_kde \in BOOLEAN
    /\ defaults = EmptyDefaults
    /\ udist1d = {}
    /\ udist2d = {}
    /\ used1d = None
    /\ used2d = None
    /\ nodicts = TRUE
    /\ cweights \in (IF has_kde THEN CornerWeights ELSE {None})
    /\ \E il \in InitLimits : limit_flag = il[1] /\ climits = il[2]
    /\ cargs = None
    /\ wused = None
    /\ reset = FALSE

\* calls with default dictionaries, with or without weights and limit
NextCornerData ==
    \E fn \in CornerMethods :
        CornerCall(fn, CornerSources, {FALSE}, CornerWeights, Flags, LimitChoices)

SpecCornerData == InitCornerData /\ [][NextCornerData]_vars

\* ------------------------------------------------- level-solver properties
LevelPcs == {"plot._dfm_levels", "corner._dfm_levels"}

Cells(h) == {Flatten(h)[i] : i \in 1..Len(Flatten(h))}

HasPositive(h) == \E v \in Cells(h) : v > 0

AllZero(h) == \A v \in Cells(h) : v = 0

Total(h) == SumSeq(Flatten(h))

\* the grid's values, largest first
Descending(h) == Reverse(SortAsc(Flatten(h)))

\* positions of the descending order d whose cumulative sum, divided by the
\* total, is <= q (none when the total is zero and the quotient undefined)
PositionsWithin(d, q) ==
    {i \in 1..Len(d) :
        SumSeq(d) # 0 /\ SumSeq(SubSeq(d, 1, i)) * q[2] <= q[1] * SumSeq(d)}

\* the reference threshold for the target probability q
RefLevel(d, q) ==
    IF PositionsWithin(d, q) = {} THEN MaxOf({d[i] : i \in 1..Len(d)})
    ELSE d[MaxOf(PositionsWithin(d, q))]

\* mass of the cells of the flat grid f that are at least as dense as v, and of
\* those strictly denser than v
MassAtLeast(f, v) == SumSeq(Masked(f, [i \in 1..Len(f) |-> f[i] >= v]))

MassAbove(f, v) == SumSeq(Masked(f, [i \in 1..Len(f) |-> f[i] > v]))

\* C1: corner._dfm_levels on a grid with a positive entry and an ascending list
\* of target probabilities returns strictly increasing pdf_levels, as many as
\* the returned cdf_levels.
C1_CornerLevelsStrictlyIncreasing ==
    (pc = "corner._dfm_levels" /\ HasPositive(hist) /\ AscendingF(cdf_levels))
        => (StrictlyAscending(levels) /\ Len(levels) = Len(kept))

\* C1 witness: corner._dfm_levels removed a duplicate and still returned two
\* or more levels.
C1_Witness ==
    /\ pc = "corner._dfm_levels"
    /\ HasPositive(hist)
    /\ Len(levels) >= 2
    /\ StrictlyAscendingF(cdf_levels)
    /\ Len(levels) < Len(cdf_levels)

\* the step-3 threshold of the requested probability q (a member of cdf_levels)
ThresholdOf(q) == thresholds[CHOOSE i \in 1..Len(cdf_levels) : cdf_levels[i] = q]

\* C2 (as claimed): corner._dfm_levels keeps threshold and quantile paired:
\* every returned level is the step-3 threshold of a returned quantile, and no
\* two returned quantiles have the same step-3 threshold.
C2_LevelsPairedWithQuantiles ==
    (pc = "corner._dfm_levels" /\ HasPositive(hist) /\ StrictlyAscendingF(cdf_levels))
        => /\ \A i \in 1..Len(levels) :
                \E j \in 1..Len(kept) : levels[i] = ThresholdOf(kept[j])
           /\ \A i, j \in 1..Len(kept) :
                i # j => ThresholdOf(kept[i]) # ThresholdOf(kept[j])

\* C3 (as claimed): plot._dfm_levels drops a duplicate level together with its
\* quantile: the returned levels hold no two equal values, and the returned
\* quantiles are as many as the returned levels.
C3_PlotLevelsDeduplicated ==
    (pc = "plot._dfm_levels" /\ HasPositive(hist) /\ StrictlyAscendingF(cdf_levels))
        => /\ \A i, j \in 1..Len(levels) : i # j => levels[i] # levels[j]
           /\ Len(kept) = Len(levels)

\* C4: in both level solvers the threshold computed for each target
\* probability, before sorting, is the density at the last position of the
\* descending order whose normalized cumulative sum is <= q, or the largest
\* density when no position qualifies.
C4_ThresholdIsReference ==
    (pc \in LevelPcs)
        => LET d == Descending(hist)
           IN  /\ Len(thresholds) = Len(cdf_levels)
               /\ \A i \in 1..Len(cdf_levels) :
                    thresholds[i] = RefLevel(d, cdf_levels[i])

\* C4 witness: one call in which one threshold comes from a qualifying
\* position and another from the fallback to the largest density.
C4_Witness ==
    /\ pc \in LevelPcs
    /\ \E i, j \in 1..Len(cdf_levels) :
         /\ PositionsWithin(Descending(hist), cdf_levels[i]) = {}
         /\ PositionsWithin(Descending(hist), cdf_levels[j]) # {}
         /\ thresholds[i] # thresholds[j]

\* q is at least the largest cell's mass fraction d[1] / T
CoversLargestCell(d, q) == q[1] * SumSeq(d) >= q[2] * d[1]

\* q times the total mass of d is at least m
WithinTarget(m, d, q) == m * q[2] <= q[1] * SumSeq(d)

\* C5 (as claimed): for a grid with positive total T and a target probability q
\* that is at least the largest cell's mass fraction, the cells at least as
\* dense as the level chosen for q hold at most q*T, ties included.
C5_ConservativeWithTies ==
    (pc \in LevelPcs /\ Total(hist) > 0)
        => LET d == Descending(hist)
           IN  \A i \in 1..Len(cdf_levels) :
                 CoversLargestCell(d, cdf_levels[i])
                    => WithinTarget(MassAtLeast(d, thresholds[i]), d, cdf_levels[i])

\* no cell left out of the prefix of d that defines the level for q is as
\* dense as the last cell of that prefix
NoTieAcrossPrefix(d, q) ==
    LET n == Cardinality(PositionsWithin(d, q))
    IN  n = Len(d) \/ d[n + 1] # d[n]

\* C5 (amended): under the same conditions the cells strictly denser than the
\* level hold at most q*T, and so do the cells at least as dense as the level
\* when no cell outside the chosen prefix ties with the prefix's last cell.
C5_ConservativeUpToTies ==
    (pc \in LevelPcs /\ Total(hist) > 0)
        => LET d == Descending(hist)
           IN  \A i \in 1..Len(cdf_levels) :
                 CoversLargestCell(d, cdf_levels[i])
                    => /\ WithinTarget(MassAbove(d, thresholds[i]), d, cdf_levels[i])
                       /\ NoTieAcrossPrefix(d, cdf_levels[i])
                            => WithinTarget(MassAtLeast(d, thresholds[i]), d, cdf_levels[i])

\* C5 witness: a level solved for a covering q whose prefix holds two or more
\* cells, ends without a tie and leaves part of the mass out.
C5_Witness ==
    /\ pc \in LevelPcs
    /\ Total(hist) > 0
    /\ \E i \in 1..Len(cdf_levels) :
         /\ CoversLargestCell(Descending(hist), cdf_levels[i])
         /\ NoTieAcrossPrefix(Descending(hist), cdf_levels[i])
         /\ Cardinality(PositionsWithin(Descending(hist), cdf_levels[i])) >= 2
         /\ MassAtLeast(Descending(hist), thresholds[i]) < Total(hist)

\* C6 (as claimed): level solving on an all-zero grid raises an error and
\* returns no levels, in both solvers (here for a nonempty list of targets).
C6_AllZeroGridRaises ==
    (pc \in LevelPcs /\ AllZero(hist) /\ cdf_levels # <<>>)
        => (raised # "none" /\ levels = <<>>)

\* ---------------------------------------------------- contour1d properties
Values(d) == {d[i] : i \in 1..Len(d)}

\* C7: for a sample of size >= 2, weights None or non-negative with a positive
\* total, and widths in (0, 1), every interval drawn has lo <= hi.
C7_IntervalsOrdered ==
    (pc = "contour1d" /\ Len(data) >= 2)
        => \A k \in 1..Len(locs) : Leq(locs[k][1], locs[k][2])

\* C7 witness: a weighted call on two or more samples, one of them of weight
\* zero, that drew two intervals, one of them of positive width.
C7_Witness ==
    /\ pc = "contour1d"
    /\ Len(data) >= 2
    /\ weights # None
    /\ \E i \in 1..Len(data) : Val(weights)[i] = 0
    /\ Len(locs) = 2
    /\ \E k \in 1..Len(locs) : Less(locs[k][1], locs[k][2])

\* the percentiles 0.5 - w/2 and 0.5 + w/2 of the width w
LowerPercentile(w) == Sub(<<1, 2>>, Quot(w, Num(2)))

UpperPercentile(w) == Add(<<1, 2>>, Quot(w, Num(2)))

\* C8: the k-th interval is the inverse of the CDF at the percentiles
\* 0.5 - w_k/2 and 0.5 + w_k/2 of the k-th width: no lower bound is paired
\* with the upper bound of another width.
C8_IntervalsPairedPerWidth ==
    (pc = "contour1d" /\ Len(data) >= 1)
        => /\ Len(locs) = Len(quantiles)
           /\ \A k \in 1..Len(quantiles) :
                /\ locs[k][1] = Lowest(interp(LowerPercentile(quantiles[k]), cdf, sdata))
                /\ locs[k][2] = Lowest(interp(UpperPercentile(quantiles[k]), cdf, sdata))

\* C8 witness: two widths whose four bounds are pairwise different.
C8_Witness ==
    /\ pc = "contour1d"
    /\ Len(quantiles) = 2
    /\ Len(locs) = 2
    /\ Cardinality({locs[1][1], locs[1][2], locs[2][1], locs[2][2]}) = 4

\* the array of Len(d) weights, each equal to v
EqualWeights(d, v) == [i \in 1..Len(d) |-> v]

\* C9 (as claimed): contour1d with weights=None computes the same median and
\* the same intervals as with an explicit array of equal positive weights.
C9_NoneIsEqualWeights ==
    (pc = "contour1d" /\ weights = None /\ Len(data) >= 1)
        => \A v \in {1, 2} :
             LET r == contour1d(data, quantiles, Some(EqualWeights(data, v)), median,
                                CHOOSE idx \in ArgSorts(data) : TRUE)
             IN  r.mm = mm /\ r.locs = locs

\* total weight of the samples of value v
WeightAt(d, w, v) == SumSeq(Masked(w, [i \in 1..Len(d) |-> d[i] = v]))

\* the sample, with its weights if any, is symmetric about the centre c,
\* given as twice the centre c2 = min + max
SymmetricSample(d, w) ==
    LET c2 == MinOf(Values(d)) + MaxOf(Values(d))
    IN  /\ \A v \in Values(d) :
             Cardinality({i \in 1..Len(d) : d[i] = v})
                = Cardinality({i \in 1..Len(d) : d[i] = c2 - v})
        /\ w # None =>
             \A v \in Values(d) : WeightAt(d, Val(w), v) = WeightAt(d, Val(w), c2 - v)

\* C10 (as claimed): for a sample symmetric about c, with weights None or
\* reflection-symmetric, the median line is at c and every interval has
\* hi - c = c - lo.
C10_SymmetricIntervals ==
    (pc = "contour1d" /\ Len(data) >= 1 /\ median /\ SymmetricSample(data, weights))
        => LET c == <<MinOf(Values(data)) + MaxOf(Values(data)), 2>>
           IN  /\ Eq(Val(mm), c)
               /\ \A k \in 1..Len(locs) :
                    Eq(Sub(locs[k][2], c), Sub(c, locs[k][1]))

\* C11 (as claimed): contour1d on a single sample x, with weights None or one
\* positive weight, raises no error, draws the median at x and every interval
\* as (x, x), for every list of widths.
C11_SingleSampleDegenerate ==
    (pc = "contour1d" /\ Len(data) = 1 /\ (weights = None \/ Val(weights)[1] > 0))
        => /\ raised = "none"
           /\ median => mm = Some(Num(data[1]))
           /\ Len(locs) = Len(quantiles)
           /\ \A k \in 1..Len(locs) : locs[k] = <<Num(data[1]), Num(data[1])>>

PadPcs == {"_pad_hist", "dist2d_data"}

\* the number of cells added on each side by the call that has ended
PadWidth == IF pc = "_pad_hist" THEN pad ELSE IF pad # 0 THEN 2 ELSE 0

\* the cell of the grid h nearest to the position (i, j), counted in h's own
\* coordinates, that lies outside h
NearestBoundaryCell(h, i, j) ==
    h[IF i < 1 THEN 1 ELSE IF i > Len(h) THEN Len(h) ELSE i]
     [IF j < 1 THEN 1 ELSE IF j > Len(h[1]) THEN Len(h[1]) ELSE j]

\* C13 (as claimed): at both padding sites every added cell holds the value of
\* the nearest boundary cell of the original grid, and the original cells are
\* kept.
C13_PaddingReplicatesEdge ==
    (pc \in PadPcs /\ raised = "none")
        => /\ Shape(phist) = <<Len(hist) + 2 * PadWidth, Len(hist[1]) + 2 * PadWidth>>
           /\ \A i \in 1..Len(phist), j \in 1..Len(phist[1]) :
                phist[i][j] = NearestBoundaryCell(hist, i - PadWidth, j - PadWidth)

\* C14: plot._pad_hist with pad >= 1 returns, for each dimension, the edges
\* e[0]-pad*d0, ..., e[0]-d0, e[0], ..., e[n], e[n]+dn, ..., e[n]+pad*dn; they
\* are strictly increasing, 2*pad more than before, and one more than the
\* padded grid has cells along that dimension.
C14_PadHistEdges ==
    (pc = "_pad_hist" /\ pad >= 1)
        => \A d \in 1..Len(edges) :
             LET e == edges[d]
                 n == Len(e)
                 d0 == e[2] - e[1]
                 dn == e[n] - e[n - 1]
             IN  /\ Len(pedges[d]) = n + 2 * pad
                 /\ \A k \in 1..pad : pedges[d][pad + 1 - k] = e[1] - k * d0
                 /\ \A i \in 1..n : pedges[d][pad + i] = e[i]
                 /\ \A k \in 1..pad : pedges[d][pad + n + k] = e[n] + k * dn
                 /\ StrictlyAscending(pedges[d])
                 /\ Len(pedges[d]) = Shape(phist)[d] + 1

\* C14 witness: a 2 x 2 grid with unequal spacings at the two ends of a
\* dimension was padded by two.
C14_Witness ==
    /\ pc = "_pad_hist"
    /\ pad = 2
    /\ Shape(hist) = <<2, 2>>
    /\ edges[1][2] - edges[1][1] # edges[1][3] - edges[1][2]
    /\ Len(pedges[1]) = 7

\* C15 (as claimed): the pad branch of corner.dist2d_data returns strictly
\* increasing edges with two new edges beyond each end, at one and two local
\* spacings from it.
C15_CornerPadEdges ==
    (pc = "dist2d_data" /\ pad # 0 /\ raised = "none")
        => \A d \in 1..Len(edges) :
             LET e == edges[d]
                 n == Len(e)
                 d0 == e[2] - e[1]
                 dn == e[n] - e[n - 1]
             IN  /\ pedges[d] = <<e[1] - 2 * d0, e[1] - d0>> \o e \o <<e[n] + dn, e[n] + 2 * dn>>
                 /\ StrictlyAscending(pedges[d])

\* the lengths of the edge arrays and the shape of the grid of a padding result
Shapes(r) == <<[d \in 1..Len(r.edges) |-> Len(r.edges[d])], Shape(r.hist)>>

\* C16: plot._pad_hist with pad 0 returns edges and grid equal to its inputs,
\* and padding by a and then by b gives edge arrays and a grid of the same
\* shapes as padding once by a + b.
C16_PadHistComposes ==
    (pc = "_pad_hist")
        => /\ pad = 0 => (pedges = edges /\ phist = hist)
           /\ \A a \in 0..pad :
                LET first == plot_pad_hist(edges, hist, a)
                    second == plot_pad_hist(first.edges, first.hist, pad - a)
                IN  Shapes(second) = Shapes([edges |-> pedges, hist |-> phist])

\* C16 witness: a call with pad 2, which splits as 1 + 1, on a grid that is
\* not square.
C16_Witness ==
    /\ pc = "_pad_hist"
    /\ pad = 2
    /\ Shape(hist) = <<1, 2>>
    /\ Shape(phist) = <<5, 6>>

\* ------------------------------------------------- _parse_edges properties
\* the number of per-dimension entries of an edges argument that is a list
EntryCount(e) == IF e.kind = "flat" THEN Len(e.ns) ELSE Len(e.es)

\* C17 (as claimed): for data of D >= 2 parameters, _parse_edges raises an
\* error whenever the number of entries of the edge specification, bin counts
\* or explicit arrays, differs from D.
C17_EntryCountMismatchRaises ==
    (/\ pc = "_parse_edges"
     /\ Len(params) >= 2
     /\ espec.kind \in {"flat", "arrays"}
     /\ EntryCount(espec) # Len(params))
        => raised # "none"

\* C18 (as claimed): an explicit edge array that is not strictly increasing is
\* rejected with an error rather than returned.
C18_NonIncreasingEdgesRejected ==
    (/\ pc = "_parse_edges"
     /\ espec.kind = "arrays"
     /\ \E i \in 1..Len(espec.es) : ~StrictlyAscending(espec.es[i]))
        => (raised # "none" /\ parsed = None)

\* ------------------------------------------------------- Corner properties
\* C19 (as claimed): after any sequence of calls to Corner.plot, Corner.hist,
\* Corner.plot_data and Corner.plot_kde in which no dist1d or dist2d argument
\* is passed, the default dictionaries of every method are still empty.
C19_DefaultsNeverMutated ==
    (pc \in CornerMethods /\ nodicts) => defaults = EmptyDefaults

C21_LevelsNonDecreasing ==
    (pc \in LevelPcs /\ HasPositive(hist) /\ AscendingF(cdf_levels))
        => (Ascending(levels) /\ Len(levels) <= Len(cdf_levels))

\* C21 witness: plot._dfm_levels returned three levels, not all equal, whose
\* order before the sort was another one.
C21_Witness ==
    /\ pc = "plot._dfm_levels"
    /\ HasPositive(hist)
    /\ Len(levels) = 3
    /\ levels[1] < levels[3]
    /\ thresholds # levels

\* the grid has exactly one cell that is not zero
OneNonzeroCell(h) == Cardinality({i \in 1..Len(Flatten(h)) : Flatten(h)[i] # 0}) = 1

\* C22: corner._dfm_levels on a grid whose only nonzero cell holds v returns,
\* for every nonempty list of target probabilities in (0, 1), exactly one
\* level, equal to v, and exactly one target probability.
C22_SingleCellOneLevel ==
    (pc = "corner._dfm_levels" /\ OneNonzeroCell(hist) /\ cdf_levels # <<>>)
        => /\ levels = <<MaxOf(Cells(hist))>>
           /\ Len(kept) = 1

\* C22 witness: a grid of three cells, one of them nonzero, solved for three
\* target probabilities.
C22_Witness ==
    /\ pc = "corner._dfm_levels"
    /\ OneNonzeroCell(hist)
    /\ Len(Flatten(hist)) = 3
    /\ Len(cdf_levels) = 3
    /\ Len(levels) = 1

\* ------------------------------------------- drawing entry point properties
DrawPcs == {"dist1d_data", "dist2d_data", "draw_contour2d", "draw_hist2d"}

\* the edges handed to the entry point that was called do not match its grid:
\* len(edges[d]) != shape[d] + 1 for some dimension d
EdgesMismatch ==
    IF pc = "dist1d_data" THEN Len(edges[2]) # Len(hist[1]) + 1
    ELSE \E d \in 1..2 : Len(edges[d]) # Shape(hist)[d] + 1

\* C24 (as claimed): corner.dist1d_data, corner.dist2d_data,
\* plot.draw_contour2d and plot.draw_hist2d, given edges that do not match the
\* grid, raise an error before any drawing call is issued on the axes.
C24_MismatchFailsFast ==
    (pc \in DrawPcs /\ EdgesMismatch) => (raised # "none" /\ calls = <<>>)

\* the call c was issued on the axes
Issued(c) == \E i \in 1..Len(calls) : calls[i] = c

\* C27 (as claimed): corner.dist2d_data called with median=False draws no
\* median line, neither ax.axvline nor ax.axhline.
C27_NoMedianLinesWhenDisabled ==
    (pc = "dist2d_data" /\ dargs.median = Some(FALSE))
        => (~Issued("axvline") /\ ~Issued("axhline"))

\* ------------------------------------------------------ dist1d properties
\* the weights handed to the step named c, if it was called
StepWeights(c) == {calls[i][2] : i \in {k \in 1..Len(calls) : calls[k][1] = c}}

\* C25 (as claimed): plot.dist1d with weights in effect (a weights array with
\* raw data, or a KDE whose weights are not uniform) and contour=True hands
\* contour1d the weights it hands to the histogram and the carpet, and the
\* median and the intervals are those of the weighted CDF.
C25_Dist1dContourWeighted ==
    (/\ pc = "dist1d"
     /\ raised = "none"
     /\ dargs.contour
     /\ dist1d_weights(weights, dargs) # None)
        => /\ StepWeights("contour1d") = {dist1d_weights(weights, dargs)}
           /\ \E idx \in ArgSortOutcomes(data, Val(weights)) :
                LET r == contour1d(data, quantiles, weights, TRUE, idx)
                IN  mm = r.mm /\ locs = r.locs

\* ------------------------------------------ Corner weights and limits
\* the weights in effect for the last call: the weights argument, else those
\* of the KDE passed, else those of the Corner's own KDE
WeightsInEffect ==
    LET src == Val(cargs)[1]
        kw == Val(cargs)[2]
        w == Val(cargs)[3]
    IN  IF w # None THEN w
        ELSE IF src = "kde" THEN kw
        ELSE IF src = "self" THEN cweights
        ELSE None

\* C26 (as claimed): Corner.hist hands the weights in effect, those passed
\* to it or those of the KDE it plots, on to plot_data and to every histogram
\* it draws.
C26_HistForwardsWeights ==
    (pc = "hist" /\ raised = "none") => wused = Some(WeightsInEffect)

\* C30: a plot_data or plot_kde call without a limit argument on a Corner
\* built with explicit limits leaves self._limits as they were and does not
\* set the axes extrema; a call changes the limits or sets the extrema only
\* on a Corner built with limits=None or when it is given limit=True.
C30_ExplicitLimitsKept ==
    [][/\ (/\ pc' \in {"plot_data", "plot_kde"}
           /\ ~limit_flag
           /\ Val(cargs')[4] = None)
              => (climits' = climits /\ ~reset')
       /\ (climits' # climits \/ reset')
              => (limit_flag \/ Val(cargs')[4] = Some(TRUE))]_vars

\* C30 witness: on a Corner built with explicit limits, plot_kde without a
\* limit argument has drawn and returned after an earlier call with
\* limit=True had replaced the limits.
C30_Witness ==
    /\ pc = "plot_kde"
    /\ raised = "none"
    /\ ~limit_flag
    /\ Val(cargs)[4] = None
    /\ wused # None
    /\ ~reset
    /\ <<limit_flag, climits>> \notin InitLimits

\* ------------------------------------------- contour1d: order and nesting
\* the index arrays that rearrange n entries
Rearrangements(n) == ArgSorts([i \in 1..n |-> 0])

\* C28 (as claimed): the weighted median and intervals of contour1d are those
\* of the same call on the sample and the weights rearranged by one and the
\* same permutation, whatever the permutation, ties among the samples
\* included.
C28_WeightedOrderInvariant ==
    (pc = "contour1d" /\ raised = "none" /\ weights # None)
        => \A p \in Rearrangements(Len(data)) :
             \A idx \in ArgSortOutcomes(Take(data, p), Take(Val(weights), p)) :
               LET r == contour1d(Take(data, p), quantiles,
                                  Some(Take(Val(weights), p)), median, idx)
               IN  r.mm = mm /\ r.locs = locs

\* C29: for a sample of size >= 2, weights None or non-negative with a
\* positive total, the interval of a width lies inside the interval of every
\* larger width, and the median line lies inside every interval.
C29_IntervalsNested ==
    (pc = "contour1d" /\ Len(data) >= 2)
        => /\ \A i, j \in 1..Len(locs) :
                Leq(quantiles[i], quantiles[j])
                    => (Leq(locs[j][1], locs[i][1]) /\ Leq(locs[i][2], locs[j][2]))
           /\ mm # None =>
                \A k \in 1..Len(locs) :
                    Leq(locs[k][1], Val(mm)) /\ Leq(Val(mm), locs[k][2])

\* C29 witness: a weighted call that drew two intervals and the median line,
\* the narrower interval strictly inside the wider and the median strictly
\* inside the narrower.
C29_Witness ==
    /\ pc = "contour1d"
    /\ Len(data) >= 2
    /\ weights # None
    /\ Len(locs) = 2
    /\ mm # None
    /\ Less(locs[2][1], locs[1][1])
    /\ Less(locs[1][2], locs[2][2])
    /\ Less(locs[1][1], Val(mm))
    /\ Less(Val(mm), locs[1][2])

====
